---- MODULE Spec2Model ----
(***************************************************************************)
(* Model of ape_starknet/ecosystems.py (class Starknet): the calldata      *)
(* encoder, the return-data decoder, the event-log decoder and the proxy   *)
(* resolver.                                                               *)
(*                                                                         *)
(* Python values are tagged records:                                       *)
(*   PyInt(n)      an int                                                  *)
(*   PyHex(n)      the 0x-prefixed string that reads as n                  *)
(*   PyList(s)     a list                                                  *)
(*   PyDict(f)     a dict, f its key -> value mapping                      *)
(*   PyTuple(a, b) the 2-tuple the decoders build                          *)
(*   None                                                                  *)
(* A normal return is Return(value), a raised exception Raise(kind).       *)
(*                                                                         *)
(* pc is "idle" before a call, "returned" / "raised" after it, and names   *)
(* the step in between for the operations that yield or call out:          *)
(* "decode_logs" while the generator runs, "probe" while get_proxy_info    *)
(* waits for its external call.  call holds the operation and its          *)
(* arguments, frame its locals, ret what it returned or raised.            *)
(***************************************************************************)
EXTENDS Integers, Sequences, FiniteSets, TLC

VARIABLES pc, call, frame, ret

vars == <<pc, call, frame, ret>>

(* ------------------------------ bounds -------------------------------- *)

\* parameter groups per method signature (a group is one input, or the
\* pair arr_len: felt, arr: felt*)
MaxGroups == 2
\* output groups per method signature
MaxOutGroups == 2
\* elements of raw return data
MaxRaw == 5
\* raw logs per decode_logs call
MaxLogs == 2
\* inputs of an event
MaxEventInputs == 2
\* data elements of a raw log
MaxData == 3

(* ------------------------------ values -------------------------------- *)

PyInt(n) == [tag |-> "int", n |-> n]
PyHex(n) == [tag |-> "hexstr", h |-> n]
PyList(s) == [tag |-> "list", items |-> s]
PyDict(f) == [tag |-> "dict", fields |-> f]
PyTuple(a, b) == [tag |-> "tuple", pair |-> <<a, b>>]
None == [tag |-> "none"]

Return(v) == [ok |-> TRUE, value |-> v]
Raise(kind) == [ok |-> FALSE, error |-> kind]

\* isinstance(value, int)
IsInt(v) == v.tag = "int"
\* isinstance(value, (list, tuple))
IsList(v) == v.tag \in {"list", "tuple"}
\* isinstance(value, dict)
IsDict(v) == v.tag = "dict"

\* the items of a list or tuple, in order
Items(v) == IF v.tag = "tuple" THEN v.pair ELSE v.items

\* the longest common zip length
Min(a, b) == IF a < b THEN a ELSE b

\* an input declared without a name (name is None)
NoName == "<None>"

\* str(type).endswith("*")
EndsWithStar(type) == type \in {"felt*"}

\* name.endswith("_len")
EndsWithLen(name) == name \in {"arr_len", "amount_len"}

(* -------------------------- PrimitiveCoercer -------------------------- *)

\* int -> unchanged; 0x-prefixed str -> int(value, 16); anything else unchanged
encode_primitive_value(value) ==
    IF IsInt(value) THEN value
    ELSE IF value.tag = "hexstr" THEN PyInt(value.h)
    ELSE value

(* --------------------------- ValueFlattener --------------------------- *)

RECURSIVE _pre_encode_value(_)
RECURSIVE _pre_encode_array(_)
RECURSIVE _pre_encode_struct(_)

_pre_encode_value(value) ==
    IF IsDict(value) THEN _pre_encode_struct(value)
    ELSE IF IsList(value) THEN _pre_encode_array(value)
    ELSE encode_primitive_value(value)

_pre_encode_array(array) ==
    IF ~IsList(array) THEN _pre_encode_array(PyList(<<array>>))
    ELSE PyList([i \in 1..Len(Items(array)) |-> _pre_encode_value(Items(array)[i])])

_pre_encode_struct(struct) ==
    PyDict([k \in DOMAIN struct.fields |-> _pre_encode_value(struct.fields[k])])

(* -------------------------- CalldataEncoder --------------------------- *)

\* min(len(method_abi.inputs), len(call_args)) - 1
last_index(inputs, call_args) == Min(Len(inputs), Len(call_args)) - 1

\* branch 1 of the loop body: the input's type ends with "*"
encode_array_position(st, call_arg) ==
    IF st.did_process_array_during_arr_len
    THEN \* continue: the trailing index += 1 is not reached
         [st EXCEPT !.did_process_array_during_arr_len = FALSE]
    ELSE [st EXCEPT !.pre_encoded_args = Append(@, _pre_encode_value(call_arg)),
                    !.index = @ + 1]

\* the elif condition: a *_len input followed (at index + 1) by an array
is_arr_len_position(st, input_type, inputs, call_args) ==
    /\ input_type.name /= NoName
    /\ EndsWithLen(input_type.name)
    /\ st.index < last_index(inputs, call_args)
    /\ EndsWithStar(inputs[st.index + 2].type)

\* the buggy variant of the length branch that also keeps the caller's length
encode_len_position_keeps_length(st, call_arg, call_args) ==
    LET pre_encoded_arg == _pre_encode_value(call_arg)
    IN  IF IsInt(pre_encoded_arg)
        THEN [st EXCEPT !.pre_encoded_args =
                            Append(Append(@, pre_encoded_arg),
                                   _pre_encode_array(call_args[st.index + 2])),
                        !.did_process_array_during_arr_len = TRUE,
                        !.index = @ + 1]
        ELSE [st EXCEPT !.pre_encoded_args = Append(@, pre_encoded_arg),
                        !.index = @ + 1]

\* branch 2 of the loop body: 'arr_len' was provided
encode_len_position(st, call_arg, call_args) ==
    LET pre_encoded_arg == _pre_encode_value(call_arg)
    IN  IF IsInt(pre_encoded_arg)
        THEN \* array_index = index + 1 (0-based), i.e. call_args[index + 2] here
             [st EXCEPT !.pre_encoded_args =
                            Append(@, _pre_encode_array(call_args[st.index + 2])),
                        !.did_process_array_during_arr_len = TRUE,
                        !.index = @ + 1]
        ELSE [st EXCEPT !.pre_encoded_args = Append(@, pre_encoded_arg),
                        !.index = @ + 1]

\* branch 3 of the loop body: any other input
encode_plain_position(st, call_arg) ==
    [st EXCEPT !.pre_encoded_args = Append(@, _pre_encode_value(call_arg)),
               !.index = @ + 1]

\* one iteration of "for call_arg, input_type in zip(call_args, inputs)"
encode_loop_body(st, call_arg, input_type, inputs, call_args) ==
    IF EndsWithStar(input_type.type)
    THEN encode_array_position(st, call_arg)
    ELSE IF is_arr_len_position(st, input_type, inputs, call_args)
    THEN encode_len_position(st, call_arg, call_args)
    ELSE encode_plain_position(st, call_arg)

RECURSIVE encode_loop(_, _, _, _)
\* the loop state after the first k iterations of the zip
encode_loop(inputs, call_args, k, st0) ==
    IF k = 0 THEN st0
    ELSE encode_loop_body(encode_loop(inputs, call_args, k - 1, st0),
                          call_args[k], inputs[k], inputs, call_args)

\* the locals before the loop
encode_locals == [pre_encoded_args |-> <<>>, index |-> 0,
                  did_process_array_during_arr_len |-> FALSE]

\* pre_encoded_args as handed to transformer.from_python
pre_encoded_args(inputs, call_args) ==
    encode_loop(inputs, call_args, Min(Len(inputs), Len(call_args)),
                encode_locals).pre_encoded_args

(* -------------------------- ReturnDataDecoder ------------------------- *)

\* the variant of the iterator that was given a default, next(iter_data, 0):
\* it hands out 0 once the data is exhausted instead of raising
next_items_with_default(st, raw_data, n) ==
    IF st.raised THEN st
    ELSE [st EXCEPT !.taken = [j \in 1..n |->
                                  IF st.pos + j <= Len(raw_data)
                                  THEN raw_data[st.pos + j] ELSE PyInt(0)],
                    !.pos = Min(st.pos + n, Len(raw_data))]

\* n calls of next(iter_data): the next n elements, or StopIteration when
\* fewer are left (nothing further is evaluated once raised)
next_items(st, raw_data, n) ==
    IF st.raised THEN st
    ELSE IF st.pos + n > Len(raw_data)
    THEN [st EXCEPT !.raised = TRUE, !.taken = <<>>]
    ELSE [st EXCEPT !.taken = SubSeq(raw_data, st.pos + 1, st.pos + n),
                    !.pos = @ + n]

\* decoded.append(entry) after the elements were taken
append_decoded(st, entry) ==
    IF st.raised THEN st ELSE [st EXCEPT !.decoded = Append(@, entry)]

\* Uint256 branch: decoded.append((next(iter_data), next(iter_data)))
decode_uint256(st, raw_data) ==
    LET t == next_items(st, raw_data, 2)
    IN  IF t.raised THEN t
        ELSE append_decoded(t, PyTuple(t.taken[1], t.taken[2]))

\* array branch: array_len = next(iter_data), then array_len further elements
decode_array(st, raw_data) ==
    LET l == next_items(st, raw_data, 1)
    IN  IF l.raised THEN l
        ELSE LET t == next_items(l, raw_data, l.taken[1].n)
             IN  IF t.raised THEN t ELSE append_decoded(t, PyList(t.taken))

\* else branch: decoded.append(next(iter_data))
decode_scalar(st, raw_data) ==
    LET t == next_items(st, raw_data, 1)
    IN  IF t.raised THEN t ELSE append_decoded(t, t.taken[1])

\* one iteration of "for abi_output_cur, abi_output_next in zip_longest(...)";
\* abi_output_next is None for the last output
decode_loop_body(st, outputs, i, raw_data) ==
    IF st.raised THEN st
    ELSE IF outputs[i].type = "Uint256" THEN decode_uint256(st, raw_data)
    ELSE IF /\ outputs[i].type = "felt"
            /\ i < Len(outputs)
            /\ outputs[i + 1].type = "felt*"
    THEN decode_array(st, raw_data)
    ELSE IF outputs[i].type = "felt*" THEN st
    ELSE decode_scalar(st, raw_data)

RECURSIVE decode_loop(_, _, _)
\* the loop state after the first k outputs
decode_loop(outputs, raw_data, k) ==
    IF k = 0 THEN [pos |-> 0, decoded |-> <<>>, taken |-> <<>>, raised |-> FALSE]
    ELSE decode_loop_body(decode_loop(outputs, raw_data, k - 1), outputs, k,
                          raw_data)

\* the variant of the final unwrap that unwraps any two-output signature
keeps_only_expected_any_pair(outputs) ==
    \/ Len(outputs) = 1
    \/ Len(outputs) = 2

\* "Keep only the expected data instead of a 1-item array"
keeps_only_expected(outputs) ==
    \/ Len(outputs) = 1
    \/ (Len(outputs) = 2 /\ outputs[2].type = "felt*")

\* the variant of the 1-item shortcut that keeps the array
single_item_kept_in_list(raw_data) == Return(PyList(raw_data))

\* "we are dealing with a 1-item array, it's safe to simply return it"
single_item(raw_data) == Return(raw_data[1])

\* Starknet.decode_returndata
decode_returndata(outputs, raw_data0) ==
    IF Len(raw_data0) = 0 THEN Return(PyList(raw_data0))
    ELSE LET raw_data == [i \in 1..Len(raw_data0) |->
                             encode_primitive_value(raw_data0[i])]
             st == decode_loop(outputs, raw_data, Len(outputs))
         IN  IF Len(raw_data) = 1 THEN single_item(raw_data)
             ELSE IF st.raised THEN Raise("StopIteration")
             ELSE IF keeps_only_expected(outputs)
             THEN IF Len(st.decoded) = 0 THEN Raise("IndexError")
                  ELSE Return(st.decoded[1])
             ELSE Return(PyList(st.decoded))

(* --------------------------- EventLogDecoder -------------------------- *)

\* get_selector_from_name(name): one key per event name
get_selector_from_name(name) == <<"selector", name>>

\* event_key in log["keys"]
has_key(log, event_key) == \E i \in 1..Len(log.keys) : log.keys[i] = event_key

\* the variant of the filter that looks at the first key only
matching_logs_by_first_key(abi, raw_logs) ==
    SelectSeq(raw_logs,
              LAMBDA log : Len(log.keys) > 0
                           /\ log.keys[1] = get_selector_from_name(abi.name))

\* matching_logs = [log for log in raw_logs if event_key in log["keys"]]
matching_logs(abi, raw_logs) ==
    SelectSeq(raw_logs, LAMBDA log : has_key(log, get_selector_from_name(abi.name)))

\* the variant of the loop body without the Uint256 branch
decode_item_one_slot_each(st, abi_type, data) ==
    IF st.raised THEN st
    ELSE IF st.pos + 1 > Len(data) THEN [st EXCEPT !.raised = TRUE]
    ELSE [st EXCEPT !.decoded = Append(@, data[st.pos + 1]), !.pos = @ + 1]

\* one iteration of decode_items' loop: a Uint256 takes two elements, any
\* other type one; next(iter_data) raises StopIteration when none is left
decode_item(st, abi_type, data) ==
    IF st.raised THEN st
    ELSE IF abi_type.type = "Uint256"
    THEN IF st.pos + 2 > Len(data) THEN [st EXCEPT !.raised = TRUE]
         ELSE [st EXCEPT !.decoded = Append(@, PyTuple(data[st.pos + 1],
                                                       data[st.pos + 2])),
                         !.pos = @ + 2]
    ELSE IF st.pos + 1 > Len(data) THEN [st EXCEPT !.raised = TRUE]
    ELSE [st EXCEPT !.decoded = Append(@, data[st.pos + 1]), !.pos = @ + 1]

RECURSIVE decode_items_loop(_, _, _)
\* decode_items' state after the first k types
decode_items_loop(abi_types, data, k) ==
    IF k = 0 THEN [pos |-> 0, decoded |-> <<>>, raised |-> FALSE]
    ELSE decode_item(decode_items_loop(abi_types, data, k - 1), abi_types[k], data)

\* decode_logs.decode_items
decode_items(abi_types, data) == decode_items_loop(abi_types, data, Len(abi_types))

\* dict(zip([a.name for a in abi.inputs], decoded)): a later duplicate name wins
event_args(inputs, decoded) ==
    LET n == Min(Len(inputs), Len(decoded))
    IN  [name \in {inputs[i].name : i \in 1..n} |->
            decoded[CHOOSE i \in 1..n :
                       /\ inputs[i].name = name
                       /\ \A j \in 1..n : inputs[j].name = name => j <= i]]

\* the ContractLog yielded for matching_logs[index] (index counted from 0)
contract_log(abi, index, log) ==
    [name |-> abi.name,
     index |-> index,
     event_arguments |-> event_args(abi.inputs, decode_items(abi.inputs, log.data).decoded),
     transaction_hash |-> log.transaction_hash,
     block_hash |-> log.block_hash,
     block_number |-> log.block_number]

(* ---------------------------- ProxyResolver --------------------------- *)

\* class ProxyType(Enum)
ProxyType(name) ==
    [tag |-> "ProxyType", name |-> name,
     value |-> CASE name = "LEGACY" -> 0
                 [] name = "ARGENT_X" -> 1
                 [] name = "OPEN_ZEPPELIN" -> 2]

\* truth of a value had ProxyType been an IntEnum: a member is true when its
\* value is non-zero
truthy_with_int_enum(v) ==
    CASE v.tag = "none" -> FALSE
      [] v.tag = "int" -> v.n /= 0
      [] v.tag = "ProxyType" -> v.value /= 0
      [] OTHER -> TRUE

\* Python truth of a value in "if target and proxy_type": None and 0 are false,
\* a non-empty str is true, a member of a plain Enum is true
truthy(v) ==
    CASE v.tag = "none" -> FALSE
      [] v.tag = "int" -> v.n /= 0
      [] OTHER -> TRUE

\* decode_address(target) = to_checksum_address(target): the address an int or
\* a hex string stands for
decode_address(raw_address) ==
    [tag |-> "address",
     address |-> IF raw_address.tag = "hexstr" THEN raw_address.h ELSE raw_address.n]

\* the variant of the if / elif chain that tests get_implementation first
proxy_check_argent_x_first(view_methods, client) ==
    IF "get_implementation" \in view_methods THEN "get_implementation"
    ELSE IF "implementation" \in view_methods THEN "implementation"
    ELSE IF client /= None THEN "get_storage_at_sync"
    ELSE "none"

\* the if / elif chain: which external call get_proxy_info makes
proxy_check(view_methods, client) ==
    IF "implementation" \in view_methods THEN "implementation"
    ELSE IF "get_implementation" \in view_methods THEN "get_implementation"
    ELSE IF client /= None THEN "get_storage_at_sync"
    ELSE "none"

\* target and proxy_type after the external call answered result
proxy_locals(check, result) ==
    CASE check = "implementation" ->
            [target |-> result, proxy_type |-> ProxyType("LEGACY")]
      [] check = "get_implementation" ->
            [target |-> result, proxy_type |-> ProxyType("ARGENT_X")]
      [] check = "get_storage_at_sync" ->
            IF result = PyHex(0)
            THEN [target |-> None, proxy_type |-> None]
            ELSE [target |-> result, proxy_type |-> ProxyType("OPEN_ZEPPELIN")]
      [] OTHER -> [target |-> None, proxy_type |-> None]

\* the return statement
proxy_result(target, proxy_type) ==
    IF truthy(target) /\ truthy(proxy_type)
    THEN Return([tag |-> "StarknetProxy", target |-> decode_address(target),
                 type |-> proxy_type])
    ELSE Return(None)

(* ------------------- the ABI-structural packer (4.3 step 4) ----------- *)

\* members of the one struct the identifier map resolves, in ABI order
PointMembers == <<"x", "y">>

\* a length parameter the packer fills in itself: a *_len input directly
\* followed by an array input
is_length_slot(inputs, i) ==
    /\ EndsWithLen(inputs[i].name)
    /\ i < Len(inputs)
    /\ EndsWithStar(inputs[i + 1].type)

RECURSIVE abi_to_types(_, _)
\* the types the packer expects one positional value for, among inputs[1..k]
abi_to_types(inputs, k) ==
    IF k = 0 THEN <<>>
    ELSE IF is_length_slot(inputs, k) THEN abi_to_types(inputs, k - 1)
    ELSE Append(abi_to_types(inputs, k - 1), inputs[k].type)

RECURSIVE felts_of(_, _)
\* the ints of the first k items of a list of ints
felts_of(items, k) ==
    IF k = 0 THEN <<>> ELSE Append(felts_of(items, k - 1), items[k].n)

\* whether value has the shape the packer accepts for type
packs_as(type, value) ==
    CASE type = "felt" -> IsInt(value)
      [] type = "felt*" ->
            IsList(value) /\ \A i \in 1..Len(Items(value)) : IsInt(Items(value)[i])
      [] type = "Point" ->
            /\ IsDict(value)
            /\ DOMAIN value.fields = {PointMembers[i] : i \in 1..Len(PointMembers)}
            /\ \A k \in DOMAIN value.fields : IsInt(value.fields[k])
      [] OTHER -> FALSE

\* the field elements of one value: a felt is itself, an array is its length
\* followed by its elements, a struct is its members in ABI order
pack_value(type, value) ==
    CASE type = "felt" -> <<value.n>>
      [] type = "felt*" ->
            <<Len(Items(value))>> \o felts_of(Items(value), Len(Items(value)))
      [] type = "Point" ->
            [i \in 1..Len(PointMembers) |-> value.fields[PointMembers[i]].n]
      [] OTHER -> <<>>

RECURSIVE pack_all(_, _, _)
\* the concatenated field elements of the first k values
pack_all(types, values, k) ==
    IF k = 0 THEN <<>>
    ELSE pack_all(types, values, k - 1) \o pack_value(types[k], values[k])

\* transformer.from_python(*pre_encoded_args): the flat calldata, or a TypeError
\* when the values do not fit the signature
from_python(inputs, args) ==
    LET types == abi_to_types(inputs, Len(inputs))
    IN  IF Len(args) /= Len(types) THEN Raise("TypeError")
        ELSE IF \E i \in 1..Len(types) : ~packs_as(types[i], args[i])
        THEN Raise("TypeError")
        ELSE Return(PyList([i \in 1..Len(pack_all(types, args, Len(types))) |->
                               PyInt(pack_all(types, args, Len(types))[i])]))

\* Starknet.encode_calldata
encode_calldata(inputs, call_args) ==
    from_python(inputs, pre_encoded_args(inputs, call_args))

(* ------------------------------ inputs -------------------------------- *)

\* one input of a method signature
Input(name, type) == [name |-> name, type |-> type]

\* the inputs a signature is built from: single inputs and the
\* (arr_len: felt, arr: felt*) pair
InputGroups ==
    { <<Input("amount", "felt")>>,
      <<Input(NoName, "felt")>>,
      <<Input("arr_len", "felt")>>,
      <<Input("arr", "felt*")>>,
      <<Input("point", "Point")>>,
      <<Input("arr_len", "felt"), Input("arr", "felt*")>> }

RECURSIVE GroupSeqs(_, _)
\* the concatenations of at most n sequences of groups
GroupSeqs(groups, n) ==
    IF n = 0 THEN {<<>>}
    ELSE GroupSeqs(groups, n - 1)
         \cup {s \o g : s \in GroupSeqs(groups, n - 1), g \in groups}

Signatures == GroupSeqs(InputGroups, MaxGroups)

\* the positional argument values a caller passes
ArgValues ==
    { PyInt(1), PyHex(2), PyList(<<>>), PyList(<<PyInt(1), PyHex(2)>>),
      PyDict([x |-> PyInt(1), y |-> PyHex(2)]) }

RECURSIVE SeqsUpTo(_, _)
\* the sequences over S of length at most n
SeqsUpTo(S, n) ==
    IF n = 0 THEN {<<>>}
    ELSE SeqsUpTo(S, n - 1)
         \cup {Append(s, x) : s \in SeqsUpTo(S, n - 1), x \in S}

\* the outputs a signature is built from: single outputs and the
\* (arr_len: felt, arr: felt*) pair an array is returned as
OutputGroups ==
    { <<Input("amount", "felt")>>,
      <<Input("balance", "Uint256")>>,
      <<Input("point", "Point")>>,
      <<Input("arr_len", "felt"), Input("arr", "felt*")>> }

OutputSignatures == GroupSeqs(OutputGroups, MaxOutGroups)

\* the elements of raw return data: ints, or hex strings from a text transport
RawValues == { PyInt(0), PyInt(1), PyHex(2) }

\* the names of an event's inputs, by position
EventInputNames == <<"sender", "amount0", "amount1", "to", "extra0", "extra1">>

\* the events' inputs: every sequence of felt and Uint256 types
EventInputs ==
    { [i \in 1..Len(types) |-> Input(EventInputNames[i], types[i])] :
        types \in SeqsUpTo({"felt", "Uint256"}, MaxEventInputs) }

\* the key lists of a raw log: another event's, the event's, or both
KeyLists ==
    { <<get_selector_from_name("Mint")>>,
      <<get_selector_from_name("Transfer")>>,
      <<get_selector_from_name("Mint"), get_selector_from_name("Transfer")>> }

\* the j-th raw log of a receipt, with n data elements (each one distinct)
RawLog(j, keys, n) ==
    [keys |-> keys,
     data |-> [i \in 1..n |-> PyInt(10 * j + i)],
     transaction_hash |-> 100 + j,
     block_hash |-> 200 + j,
     block_number |-> j]

RECURSIVE RawLogLists(_)
\* the lists of n raw logs
RawLogLists(n) ==
    IF n = 0 THEN {<<>>}
    ELSE {Append(logs, RawLog(n, keys, len)) :
            logs \in RawLogLists(n - 1), keys \in KeyLists, len \in 0..MaxData}

\* the view methods a contract type may declare
ViewMethodNames == {"implementation", "get_implementation", "balanceOf"}

\* provider.client: None, or a client that reads storage
Clients == {None, [tag |-> "client"]}

\* what the external calls answer: a view method an int, the storage read a
\* hex string ("0x0" when the slot is empty)
ProbeAnswers(check) ==
    IF check = "get_storage_at_sync" THEN {PyHex(0), PyHex(1), PyHex(2)}
    ELSE {PyInt(0), PyInt(1), PyInt(2)}

\* the signatures without array and wide-integer types
ScalarSignatures ==
    {sig \in Signatures : \A i \in 1..Len(sig) : sig[i].type \in {"felt", "Point"}}

\* the structured values of a type: field elements, and structs of them
ValuesOfType(type) ==
    IF type = "Point"
    THEN {PyDict([x |-> PyInt(a), y |-> PyInt(b)]) : a \in {1}, b \in {1, 2}}
    ELSE {PyInt(1), PyInt(2)}

\* the argument tuples that match a signature
ValuesMatching(sig) ==
    {v \in SeqsUpTo(ValuesOfType("felt") \cup ValuesOfType("Point"), Len(sig)) :
        /\ Len(v) = Len(sig)
        /\ \A i \in 1..Len(sig) : v[i] \in ValuesOfType(sig[i].type)}

(* ------------------------------ actions ------------------------------- *)

Init ==
    /\ pc = "idle"
    /\ call = [op |-> "none"]
    /\ frame = [op |-> "none"]
    /\ ret = Return(None)

\* a caller encodes call_args against a method signature
EncodeCalldata ==
    /\ pc = "idle"
    /\ \E inputs \in Signatures :
       \E call_args \in SeqsUpTo(ArgValues, Len(inputs)) :
          /\ call' = [op |-> "encode_calldata", inputs |-> inputs,
                      call_args |-> call_args]
          /\ frame' = [op |-> "encode_calldata",
                       pre_encoded_args |-> pre_encoded_args(inputs, call_args)]
          /\ ret' = encode_calldata(inputs, call_args)
    /\ pc' = "returned"

\* a caller decodes raw return data against a method's outputs
DecodeReturndata ==
    /\ pc = "idle"
    /\ \E outputs \in OutputSignatures :
       \E raw_data \in SeqsUpTo(RawValues, MaxRaw) :
          /\ call' = [op |-> "decode_returndata", outputs |-> outputs,
                      raw_data |-> raw_data]
          /\ ret' = decode_returndata(outputs, raw_data)
    /\ frame' = [op |-> "decode_returndata"]
    /\ pc' = "returned"

\* decode_logs is called: the generator is created over the matching logs
DecodeLogs ==
    /\ pc = "idle"
    /\ \E inputs \in EventInputs : \E n \in 0..MaxLogs : \E raw_logs \in RawLogLists(n) :
          LET abi == [name |-> "Transfer", inputs |-> inputs]
          IN  /\ call' = [op |-> "decode_logs", abi |-> abi, raw_logs |-> raw_logs]
              /\ frame' = [op |-> "decode_logs",
                           matching_logs |-> matching_logs(abi, raw_logs),
                           index |-> 0,
                           yielded |-> <<>>]
    /\ ret' = Return(None)
    /\ pc' = "decode_logs"

\* the consumer asks for the next event and the next matching log decodes
DecodeLogsYield ==
    /\ pc = "decode_logs"
    /\ frame.index < Len(frame.matching_logs)
    /\ LET log == frame.matching_logs[frame.index + 1]
       IN  /\ ~decode_items(call.abi.inputs, log.data).raised
           /\ frame' = [frame EXCEPT
                          !.yielded = Append(@, contract_log(call.abi, frame.index, log)),
                          !.index = @ + 1]
    /\ UNCHANGED <<pc, call, ret>>

\* the next matching log holds too few data elements: the StopIteration of
\* next(iter_data) ends the generator with an error
DecodeLogsRaise ==
    /\ pc = "decode_logs"
    /\ frame.index < Len(frame.matching_logs)
    /\ decode_items(call.abi.inputs, frame.matching_logs[frame.index + 1].data).raised
    /\ pc' = "raised"
    /\ ret' = Raise("RuntimeError")
    /\ UNCHANGED <<call, frame>>

\* no matching log is left: the generator is exhausted
DecodeLogsExhausted ==
    /\ pc = "decode_logs"
    /\ frame.index = Len(frame.matching_logs)
    /\ pc' = "returned"
    /\ UNCHANGED <<call, frame, ret>>

\* get_proxy_info is called: it returns at once when the address holds no
\* contract instance or no check applies, and makes its external call otherwise
GetProxyInfo ==
    /\ pc = "idle"
    /\ \E is_instance \in BOOLEAN : \E view_methods \in SUBSET ViewMethodNames :
       \E client \in Clients :
          LET check == IF is_instance THEN proxy_check(view_methods, client)
                       ELSE "none"
          IN  /\ call' = [op |-> "get_proxy_info", is_instance |-> is_instance,
                          view_methods |-> view_methods, client |-> client]
              /\ frame' = [op |-> "get_proxy_info", check |-> check,
                           calls |-> <<>>, target |-> None, proxy_type |-> None]
              /\ IF check = "none"
                 THEN pc' = "returned" /\ ret' = proxy_result(None, None)
                 ELSE pc' = "probe" /\ ret' = Return(None)

\* the external call answers and get_proxy_info returns
ProbeAnswered ==
    /\ pc = "probe"
    /\ \E result \in ProbeAnswers(frame.check) :
          LET locals == proxy_locals(frame.check, result)
          IN  /\ frame' = [frame EXCEPT !.calls = Append(@, [name |-> frame.check,
                                                             result |-> result]),
                                        !.target = locals.target,
                                        !.proxy_type = locals.proxy_type]
              /\ ret' = proxy_result(locals.target, locals.proxy_type)
    /\ pc' = "returned"
    /\ UNCHANGED call

\* the external call fails: the transport's error leaves get_proxy_info
ProbeFailed ==
    /\ pc = "probe"
    /\ frame' = [frame EXCEPT !.calls = Append(@, [name |-> frame.check,
                                                   result |-> None])]
    /\ ret' = Raise("TransportError")
    /\ pc' = "raised"
    /\ UNCHANGED call

\* a caller encodes a value against a signature and decodes the calldata
\* against the same signature
RoundTrip ==
    /\ pc = "idle"
    /\ \E sig \in ScalarSignatures : \E v \in ValuesMatching(sig) :
          LET encoded == encode_calldata(sig, v)
          IN  /\ call' = [op |-> "round_trip", sig |-> sig, v |-> v]
              /\ frame' = [op |-> "round_trip", encoded |-> encoded]
              /\ ret' = IF encoded.ok
                        THEN decode_returndata(sig, encoded.value.items)
                        ELSE encoded
    /\ pc' = "returned"

Next ==
    \/ RoundTrip
    \/ EncodeCalldata
    \/ DecodeReturndata
    \/ DecodeLogs
    \/ DecodeLogsYield
    \/ DecodeLogsRaise
    \/ DecodeLogsExhausted
    \/ GetProxyInfo
    \/ ProbeAnswered
    \/ ProbeFailed

Spec == Init /\ [][Next]_vars

(* ------------------------------ claims -------------------------------- *)

\* the field element a caller's scalar stands for
FeltOf(e) == IF e.tag = "hexstr" THEN e.h ELSE e.n

\* a scalar that is, or coerces to, an integer
IsIntegerArg(v) == v.tag \in {"int", "hexstr"}

\* a list whose items are all integer scalars
IsFeltArrayArg(v) ==
    /\ v.tag = "list"
    /\ \A i \in 1..Len(v.items) : IsIntegerArg(v.items[i])

\* the list of ints an array argument stands for
FeltArray(v) == PyList([i \in 1..Len(v.items) |-> PyInt(FeltOf(v.items[i]))])

LenArrPair == <<Input("arr_len", "felt"), Input("arr", "felt*")>>

\* encode_calldata returned for (arr_len: felt, arr: felt*) called with (L, A)
C1_Case ==
    /\ pc = "returned"
    /\ call.op = "encode_calldata"
    /\ call.inputs = LenArrPair
    /\ Len(call.call_args) = 2
    /\ IsIntegerArg(call.call_args[1])
    /\ IsFeltArrayArg(call.call_args[2])

\* C1: for inputs (arr_len: felt, arr: felt*) and arguments (L, A), whatever
\* the integer L is, the calldata is [len(A)] followed by the elements of A,
\* and the array was pre-encoded exactly once (L never reaches the output).
C1_ArrayLengthDerived ==
    C1_Case =>
        LET A == FeltArray(call.call_args[2])
        IN  /\ frame.pre_encoded_args = <<A>>
            /\ ret = Return(PyList(<<PyInt(Len(A.items))>> \o A.items))

\* C1 witness: a non-empty array with a declared length that differs from it
C1_Witness ==
    /\ C1_Case
    /\ Len(call.call_args[2].items) = 2
    /\ FeltOf(call.call_args[1]) /= 2
    /\ ret.ok
    /\ Len(ret.value.items) = 3

\* decode_returndata returned
DecodeReturned == pc = "returned" /\ call.op = "decode_returndata"

\* C2: raw data of exactly one element decodes to that element coerced to an
\* int, never to a one-element sequence, whatever the outputs are.
C2_SingleElementUnwrapped ==
    (DecodeReturned /\ Len(call.raw_data) = 1)
        => ret = Return(PyInt(FeltOf(call.raw_data[1])))

\* C2 witness: one hex element decoded against a length/array pair followed
\* by a wide integer
C2_Witness ==
    /\ DecodeReturned
    /\ call.raw_data = <<PyHex(2)>>
    /\ Len(call.outputs) = 3
    /\ call.outputs[2].type = "felt*"
    /\ call.outputs[3].type = "Uint256"
    /\ ret = Return(PyInt(2))

RECURSIVE Required(_, _, _, _)
\* the number of raw elements the outputs from the i-th on require, added to
\* the off elements before them: two per Uint256, 1 + n per felt/felt* pair
\* (n is the element read as the length), none for the array marker itself,
\* one per other output
Required(outputs, raw, i, off) ==
    IF i > Len(outputs) \/ off > Len(raw) THEN off
    ELSE IF outputs[i].type = "Uint256" THEN Required(outputs, raw, i + 1, off + 2)
    ELSE IF outputs[i].type = "felt*" THEN Required(outputs, raw, i + 1, off)
    ELSE IF outputs[i].type = "felt" /\ i < Len(outputs)
            /\ outputs[i + 1].type = "felt*"
    THEN IF off + 1 > Len(raw) THEN off + 1
         ELSE Required(outputs, raw, i + 1, off + 1 + FeltOf(raw[off + 1]))
    ELSE Required(outputs, raw, i + 1, off + 1)

\* the raw data holds fewer elements than the outputs require
TooShort == Len(call.raw_data) < Required(call.outputs, call.raw_data, 1, 0)

\* C8 as stated: every non-empty raw data that is too short makes
\* decode_returndata fail with an error.
C8_ShortDataFails ==
    (DecodeReturned /\ Len(call.raw_data) >= 1 /\ TooShort) => ~ret.ok

\* C8 amended: raw data of at least two elements that is too short makes
\* decode_returndata fail with an error and return no value.
C8_ShortDataOfTwoOrMoreFails ==
    (DecodeReturned /\ Len(call.raw_data) >= 2 /\ TooShort)
        => ret = Raise("StopIteration")

\* C8 witness: an array whose length element promises more than is left
C8_Witness ==
    /\ DecodeReturned
    /\ Len(call.outputs) = 2
    /\ call.outputs[2].type = "felt*"
    /\ call.raw_data = <<PyHex(2), PyInt(1)>>
    /\ ~ret.ok

RECURSIVE Entries(_, _, _, _)
\* the reference walk: the entries decoded from the i-th output on, the first
\* off raw elements being consumed already
Entries(outputs, raw, i, off) ==
    LET el(k) == PyInt(FeltOf(raw[k]))
    IN  IF i > Len(outputs) THEN <<>>
        ELSE IF outputs[i].type = "Uint256"
        THEN <<PyTuple(el(off + 1), el(off + 2))>>
             \o Entries(outputs, raw, i + 1, off + 2)
        ELSE IF outputs[i].type = "felt*" THEN Entries(outputs, raw, i + 1, off)
        ELSE IF outputs[i].type = "felt" /\ i < Len(outputs)
                /\ outputs[i + 1].type = "felt*"
        THEN LET n == FeltOf(raw[off + 1])
             IN  <<PyList([j \in 1..n |-> el(off + 1 + j)])>>
                 \o Entries(outputs, raw, i + 1, off + 1 + n)
        ELSE <<el(off + 1)>> \o Entries(outputs, raw, i + 1, off + 1)

\* C10: raw data of at least two elements that is long enough decodes to the
\* reference walk's entries: the single entry when there is exactly one
\* output, or exactly two of which the second is the array marker, and the
\* sequence of all entries otherwise.
C10_DecodeMatchesReferenceWalk ==
    (DecodeReturned /\ Len(call.raw_data) >= 2 /\ ~TooShort) =>
        LET entries == Entries(call.outputs, call.raw_data, 1, 0)
            single == \/ Len(call.outputs) = 1
                      \/ (Len(call.outputs) = 2 /\ call.outputs[2].type = "felt*")
        IN  ret = Return(IF single THEN entries[1] ELSE PyList(entries))

\* C10 witness: an array of two followed by a wide integer, decoded to two
\* entries
C10_Witness ==
    /\ DecodeReturned
    /\ Len(call.outputs) = 3
    /\ call.outputs[3].type = "Uint256"
    /\ ret = Return(PyList(<<PyList(<<PyInt(0), PyInt(1)>>),
                             PyTuple(PyInt(2), PyInt(1))>>))

\* decode_logs was called (its generator is running, exhausted or failed)
InDecodeLogs == pc \in {"decode_logs", "returned", "raised"} /\ call.op = "decode_logs"

RECURSIVE MatchPositions(_, _, _)
\* the positions, among the first j raw logs, of those whose keys hold key
MatchPositions(raw_logs, key, j) ==
    IF j = 0 THEN <<>>
    ELSE IF key \in {raw_logs[j].keys[i] : i \in 1..Len(raw_logs[j].keys)}
    THEN Append(MatchPositions(raw_logs, key, j - 1), j)
    ELSE MatchPositions(raw_logs, key, j - 1)

\* the positions of the event's logs in the raw input
EventPositions ==
    MatchPositions(call.raw_logs, get_selector_from_name(call.abi.name),
                   Len(call.raw_logs))

\* C4: the events yielded are, in order, those of the raw logs whose key list
\* holds the event's selector, one each and none for another log; the k-th
\* carries index k counted from 0 among the matching logs, not its raw
\* position; an exhausted generator has yielded one for every matching log.
C4_OneEventPerMatchingLog ==
    InDecodeLogs =>
        /\ Len(frame.yielded) <= Len(EventPositions)
        /\ \A k \in 1..Len(frame.yielded) :
              /\ frame.yielded[k].index = k - 1
              /\ frame.yielded[k].name = call.abi.name
              /\ frame.yielded[k].block_number
                    = call.raw_logs[EventPositions[k]].block_number
              /\ frame.yielded[k].transaction_hash
                    = call.raw_logs[EventPositions[k]].transaction_hash
        /\ (pc = "returned" => Len(frame.yielded) = Len(EventPositions))

\* C4 witness: of two raw logs only the second is the event's; it is yielded
\* with index 0
C4_Witness ==
    /\ InDecodeLogs
    /\ pc = "returned"
    /\ Len(call.raw_logs) = 2
    /\ EventPositions = <<2>>
    /\ Len(frame.yielded) = 1
    /\ frame.yielded[1].index = 0
    /\ frame.yielded[1].block_number = 2

\* the data elements an input takes
Width(input) == IF input.type = "Uint256" THEN 2 ELSE 1

RECURSIVE Offset(_, _)
\* the data elements the inputs before the i-th take
Offset(inputs, i) ==
    IF i <= 1 THEN 0 ELSE Offset(inputs, i - 1) + Width(inputs[i - 1])

\* the value of the i-th input read at its own offset
ArgAt(inputs, data, i) ==
    IF inputs[i].type = "Uint256"
    THEN PyTuple(data[Offset(inputs, i) + 1], data[Offset(inputs, i) + 2])
    ELSE data[Offset(inputs, i) + 1]

\* C5: every event yielded maps the i-th input name to the value read at that
\* input's own offset: two consecutive elements (low, high) for a Uint256, one
\* for any other input; a log fails to decode only when its data is too short.
C5_EventArgumentsByOffset ==
    InDecodeLogs =>
        LET inputs == call.abi.inputs
            needed == Offset(inputs, Len(inputs) + 1)
        IN  /\ \A k \in 1..Len(frame.yielded) :
                  LET args == frame.yielded[k].event_arguments
                      data == call.raw_logs[EventPositions[k]].data
                  IN  /\ Len(data) >= needed
                      /\ DOMAIN args = {inputs[i].name : i \in 1..Len(inputs)}
                      /\ \A i \in 1..Len(inputs) :
                            args[inputs[i].name] = ArgAt(inputs, data, i)
            /\ (pc = "raised" =>
                  Len(call.raw_logs[EventPositions[Len(frame.yielded) + 1]].data)
                     < needed)

\* C5 witness: a Uint256 input before a felt input, decoded from three elements
C5_Witness ==
    /\ InDecodeLogs
    /\ Len(call.abi.inputs) = 2
    /\ call.abi.inputs[1].type = "Uint256"
    /\ call.abi.inputs[2].type = "felt"
    /\ Len(frame.yielded) = 1
    /\ frame.yielded[1].event_arguments
          = [sender |-> PyTuple(PyInt(11), PyInt(12)), amount0 |-> PyInt(13)]

\* get_proxy_info was called
InGetProxyInfo == call.op = "get_proxy_info"

\* the one external call the priority order allows for the contract
AllowedProbe ==
    IF ~call.is_instance THEN "none"
    ELSE IF "implementation" \in call.view_methods THEN "implementation"
    ELSE IF "get_implementation" \in call.view_methods THEN "get_implementation"
    ELSE IF call.client /= None THEN "get_storage_at_sync"
    ELSE "none"

\* C6: at most one external call is made per resolution, and it is the first
\* match of the fixed order: implementation() whenever the contract declares
\* `implementation` (also with `get_implementation` declared), get_implementation()
\* only without `implementation`, the storage read only with neither view method
\* and a client; a resolution that returned made exactly that call.
C6_FirstMatchProbe ==
    InGetProxyInfo =>
        /\ Len(frame.calls) <= 1
        /\ \A i \in 1..Len(frame.calls) : frame.calls[i].name = AllowedProbe
        /\ (pc = "returned" => Len(frame.calls) = (IF AllowedProbe = "none" THEN 0 ELSE 1))
        /\ (pc = "returned" /\ ret.value /= None /\ "implementation" \in call.view_methods
               => ret.value.type.name = "LEGACY")

\* C6 witness: a contract declaring both view methods resolved as Legacy
C6_Witness ==
    /\ InGetProxyInfo
    /\ pc = "returned"
    /\ {"implementation", "get_implementation"} \subseteq call.view_methods
    /\ frame.calls = <<[name |-> "implementation", result |-> PyInt(2)]>>
    /\ ret.value /= None
    /\ ret.value.type.name = "LEGACY"

\* the proxy kind of an external call
KindOf(name) ==
    CASE name = "implementation" -> "LEGACY"
      [] name = "get_implementation" -> "ARGENT_X"
      [] name = "get_storage_at_sync" -> "OPEN_ZEPPELIN"

\* C7: get_proxy_info returns a descriptor exactly when its one external call
\* answered a non-zero target, and the descriptor holds that target and the
\* call's kind; a zero answer (of a view method, or the storage's "0x0") and a
\* resolution without any call return nothing.
C7_DescriptorIffNonZeroTarget ==
    (InGetProxyInfo /\ pc = "returned") =>
        IF Len(frame.calls) = 1 /\ FeltOf(frame.calls[1].result) /= 0
        THEN /\ ret.ok
             /\ ret.value.tag = "StarknetProxy"
             /\ ret.value.target.address = FeltOf(frame.calls[1].result)
             /\ ret.value.type.name = KindOf(frame.calls[1].name)
        ELSE ret = Return(None)

\* C7 witness: implementation() answered 1 and a Legacy descriptor of target 1
\* is returned
C7_Witness ==
    /\ InGetProxyInfo
    /\ pc = "returned"
    /\ frame.calls = <<[name |-> "implementation", result |-> PyInt(1)]>>
    /\ ret.value.tag = "StarknetProxy"
    /\ ret.value.type.name = "LEGACY"
    /\ ret.value.target.address = 1

\* encode_calldata returned
EncodeReturned == pc = "returned" /\ call.op = "encode_calldata"

\* the flattened form of an argument value of the model: scalars coerced,
\* inside lists and structs too
Flattened(v) ==
    CASE v.tag = "list" ->
            PyList([i \in 1..Len(v.items) |-> PyInt(FeltOf(v.items[i]))])
      [] v.tag = "dict" ->
            PyDict([k \in DOMAIN v.fields |-> PyInt(FeltOf(v.fields[k]))])
      [] OTHER -> PyInt(FeltOf(v))

\* the flattened array an argument stands for (a lone scalar or struct is an
\* array of one)
FlattenedArray(v) ==
    IF v.tag = "list" THEN Flattened(v) ELSE PyList(<<Flattened(v)>>)

\* position p is a length position: named *_len, not the last processed
\* position, followed by an array input, its argument an integer
IsLenPosition(inputs, args, p) ==
    /\ p >= 1
    /\ p < Min(Len(inputs), Len(args))
    /\ ~EndsWithStar(inputs[p].type)
    /\ inputs[p].name \in {"arr_len", "amount_len"}
    /\ EndsWithStar(inputs[p + 1].type)
    /\ IsIntegerArg(args[p])

\* the entries position p contributes to the pre-encoded argument list
EntriesAt(inputs, args, p) ==
    IF IsLenPosition(inputs, args, p) THEN <<FlattenedArray(args[p + 1])>>
    ELSE IF IsLenPosition(inputs, args, p - 1) THEN <<>>
    ELSE <<Flattened(args[p])>>

RECURSIVE ExpectedPreEncoded(_, _, _)
\* the entries of the first k positions
ExpectedPreEncoded(inputs, args, k) ==
    IF k = 0 THEN <<>>
    ELSE ExpectedPreEncoded(inputs, args, k - 1) \o EntriesAt(inputs, args, k)

\* C9: every length position (the first and every later one of a signature)
\* contributes exactly one entry for its pair, the flattened array argument
\* of the next position; its length value is not emitted and the next
\* position is skipped; every other position contributes its own value.
C9_EveryLenPositionPaired ==
    EncodeReturned =>
        frame.pre_encoded_args
            = ExpectedPreEncoded(call.inputs, call.call_args,
                                 Min(Len(call.inputs), Len(call.call_args)))

\* a value was encoded and decoded back
RoundTripped == pc = "returned" /\ call.op = "round_trip"

\* C3: for a signature without wide-integer and array types and a value v
\* matching it, decoding the encoded v gives v back (the single value itself
\* for a signature of one input).
C3_RoundTrip ==
    RoundTripped =>
        ret = Return(IF Len(call.v) = 1 THEN call.v[1] ELSE PyList(call.v))

\* C11: every processed array position (an input whose type ends with the
\* array marker, reached through a preceding *_len input or not) whose
\* argument is a scalar gets, as its entry of the pre-encoded argument list,
\* the single-element array of that scalar.
C11_ScalarPromotedAtArrayPosition ==
    EncodeReturned =>
        \A p \in 1..Min(Len(call.inputs), Len(call.call_args)) :
            (EndsWithStar(call.inputs[p].type) /\ IsIntegerArg(call.call_args[p]))
                => LET e == Len(ExpectedPreEncoded(call.inputs, call.call_args, p))
                   IN  /\ e >= 1
                       /\ e <= Len(frame.pre_encoded_args)
                       /\ frame.pre_encoded_args[e]
                             = PyList(<<PyInt(FeltOf(call.call_args[p]))>>)

====
